---- MODULE Spec2Model ----
(***************************************************************************)
(* A model of wasm_mutex (src/src/lib.rs): Mutex<T>, the LockFuture        *)
(* returned by lock(), try_lock(), and the guard MutexRef whose Drop pops  *)
(* one waker of the registry and wakes it.                                 *)
(*                                                                         *)
(* Tasks are the clients of one Mutex (and its clones, which share both    *)
(* cells).  A task owns at most one LockFuture or one MutexRef at a time.  *)
(* The build is either Cooperative (Rc<RefCell<_>>, one thread: every      *)
(* handler runs to its end before another starts) or Concurrent (feature   *)
(* "async", Arc<std::sync::Mutex<_>>: handlers of different tasks run on   *)
(* different threads and interleave between their accesses to the cells).  *)
(***************************************************************************)
EXTENDS Integers, Sequences, FiniteSets, TLC

\* Number of tasks that call lock(); each calls it once.
NumLockers == 3
\* Spec: lock() is called at most MaxRequests times.
MaxRequests == 2
\* The payload is incremented at most MaxValue times.
MaxValue == 2
\* The scenario specification records at most MaxLog registry events.
MaxLog == 6

\* The registry holds at most MaxWakers entries (caps repeated failing polls).
MaxWakers == NumLockers

\* One task uses try_lock() (any number of times), the others lock().
Lockers == 1..NumLockers
TryClient == NumLockers + 1
Tasks == 1..(NumLockers + 1)

VARIABLES
    mode,           \* the build: "Cooperative" or "Concurrent"
    value,          \* Mutex.value: the payload T (an integer)
    borrowed,       \* Mutex.value: the RefCell borrow flag / the std Mutex lock
    wakers,         \* MutexState.wakers: Vec<(WakerId, Waker)>
    next_waker_id,  \* MutexState.next_waker_id
    pc,             \* what each task owns: nothing, a LockFuture, a MutexRef
    fut,            \* LockFuture.waker_id of the task's request, <<>> if none
    woken,          \* the task's Waker was invoked and it was not polled since
    tmp,            \* the payload read through the guard by `*guard += 1`
    incs,           \* history: how many increments were made through guards
    log,            \* history: registry events, recorded by OrderSpec only
    state_owner     \* Mutex.state: the thread inside the std Mutex, <<>> if
                    \* none; used by RegistrySpec only

vars == <<mode, value, borrowed, wakers, next_waker_id, pc, fut, woken, tmp, incs, log, state_owner>>

NoFuture == <<>>

\* The state cell is not locked.
Unlocked == <<>>

\* A task owning a MutexRef: fresh or between uses ("holding"), inside
\* `*guard += 1` ("updating"), or inside Drop after on_drop has run and
\* before the field `core` is dropped ("dropping").
GuardPcs == {"holding", "updating", "dropping"}

\* A task owning an unresolved LockFuture: never polled ("created"), inside
\* poll after a failed probe and before set_wake ("busy"), or returned
\* Poll::Pending ("pending").
RequestPcs == {"created", "busy", "pending"}

Guards == {t \in Tasks : pc[t] \in GuardPcs}

\* Where a task is after its MutexRef is gone.
Rest(t) == IF t = TryClient THEN "idle" ELSE "done"

Init ==
    /\ mode \in {"Cooperative", "Concurrent"}
    /\ value = 0
    /\ borrowed = FALSE
    /\ wakers = <<>>
    /\ next_waker_id = 0
    /\ pc = [t \in Tasks |-> "idle"]
    /\ fut = [t \in Tasks |-> NoFuture]
    /\ woken = [t \in Tasks |-> FALSE]
    /\ tmp = [t \in Tasks |-> <<>>]
    /\ incs = 0
    /\ log = <<>>
    /\ state_owner = Unlocked

(***************************************************************************)
(* The backing store and the registry.                                     *)
(***************************************************************************)

\* A probe that succeeds whether or not a handle lives.
try_borrow_mut_always == TRUE

\* self.value.try_borrow_mut() / self.value.try_lock(): Ok iff no handle lives.
try_borrow_mut == ~borrowed

\* state.wakers.iter().position(|(id, _)| *id == waker_id), 1-based; 0 is None.
position(ws, waker_id) ==
    IF \E i \in 1..Len(ws) : ws[i][1] = waker_id
    THEN CHOOSE i \in 1..Len(ws) :
            /\ ws[i][1] = waker_id
            /\ \A j \in 1..(i - 1) : ws[j][1] # waker_id
    ELSE 0

\* Vec::insert(index, e): e is placed at index, the elements from index on
\* shift one place to the right.
insert(ws, index, e) ==
    SubSeq(ws, 1, index - 1) \o <<e>> \o SubSeq(ws, index, Len(ws))

\* A set_wake that files the waker under the counter, not the request's id.
set_wake_counter(ws, waker_id, waker) ==
    Append(ws, <<next_waker_id, waker>>)

\* The set_wake closure built by lock().
set_wake(ws, waker_id, waker) ==
    LET index == position(ws, waker_id)
    IN  IF index # 0
        THEN insert(ws, index, <<waker_id, waker>>)
        ELSE Append(ws, <<waker_id, waker>>)

\* state.wakers.pop(): the vector without its last element.
pop_rest(ws) == IF ws = <<>> THEN <<>> ELSE SubSeq(ws, 1, Len(ws) - 1)

\* A pop that returns the oldest entry.
pop_entry_first(ws) == IF ws = <<>> THEN <<>> ELSE ws[1]

\* state.wakers.pop(): the removed element, <<>> for None.
pop_entry(ws) == IF ws = <<>> THEN <<>> ELSE ws[Len(ws)]

\* A release that wakes every waiting task instead of the removed entry's.
wake_all(w) ==
    IF w # <<>>
    THEN [u \in Tasks |-> woken[u] \/ pc[u] \in RequestPcs]
    ELSE woken

\* waker.wake(): the task of the waker is scheduled for a poll; a task with
\* no unresolved LockFuture has nothing to poll.
wake(w) ==
    IF w # <<>> /\ pc[w[2]] \in RequestPcs
    THEN [woken EXCEPT ![w[2]] = TRUE]
    ELSE woken

(***************************************************************************)
(* The operations.  None of them touches the history variable log.        *)
(***************************************************************************)

\* A lock() that hands out the counter without incrementing it.
LockKeepsCounter(t) ==
    /\ pc[t] = "idle"
    /\ fut' = [fut EXCEPT ![t] = <<next_waker_id>>]
    /\ pc' = [pc EXCEPT ![t] = "created"]
    /\ UNCHANGED <<mode, value, borrowed, wakers, next_waker_id, woken, tmp, incs>>

\* Mutex::lock(): takes the counter as the request's id and increments it.
Lock(t) ==
    /\ pc[t] = "idle"
    /\ fut' = [fut EXCEPT ![t] = <<next_waker_id>>]
    /\ next_waker_id' = next_waker_id + 1
    /\ pc' = [pc EXCEPT ![t] = "created"]
    /\ UNCHANGED <<mode, value, borrowed, wakers, woken, tmp, incs>>

\* A poll that grants the store only to the request whose entry is next to
\* be woken, or when nobody is registered.
PollQueued(t) ==
    /\ pc[t] \in {"created", "pending"}
    /\ woken' = [woken EXCEPT ![t] = FALSE]
    /\ IF try_borrow_mut /\ (wakers = <<>> \/ pop_entry(wakers)[1] = fut[t][1])
       THEN /\ borrowed' = TRUE
            /\ pc' = [pc EXCEPT ![t] = "holding"]
            /\ UNCHANGED wakers
       ELSE IF mode = "Cooperative"
            THEN /\ Len(wakers) < MaxWakers
                 /\ wakers' = set_wake(wakers, fut[t][1], t)
                 /\ pc' = [pc EXCEPT ![t] = "pending"]
                 /\ UNCHANGED borrowed
            ELSE /\ pc' = [pc EXCEPT ![t] = "busy"]
                 /\ UNCHANGED <<borrowed, wakers>>
    /\ UNCHANGED <<mode, value, next_waker_id, fut, tmp, incs>>

\* LockFuture::poll(): probes the store; Ready(MutexRef) on success.  On
\* failure the Cooperative build registers and returns Pending in the same
\* step; in the Concurrent build other threads run between the failed probe
\* and the call of set_wake.  The executor may poll an unresolved request at
\* any time, woken or not.
Poll(t) ==
    /\ pc[t] \in {"created", "pending"}
    /\ woken' = [woken EXCEPT ![t] = FALSE]
    /\ IF try_borrow_mut
       THEN /\ borrowed' = TRUE
            /\ pc' = [pc EXCEPT ![t] = "holding"]
            /\ UNCHANGED wakers
       ELSE IF mode = "Cooperative"
            THEN /\ Len(wakers) < MaxWakers
                 /\ wakers' = set_wake(wakers, fut[t][1], t)
                 /\ pc' = [pc EXCEPT ![t] = "pending"]
                 /\ UNCHANGED borrowed
            ELSE /\ pc' = [pc EXCEPT ![t] = "busy"]
                 /\ UNCHANGED <<borrowed, wakers>>
    /\ UNCHANGED <<mode, value, next_waker_id, fut, tmp, incs>>

\* LockFuture::poll(), Concurrent build, after the failed probe:
\* (self.set_wake)(waker_id, cx.waker().clone()); Poll::Pending.
Register(t) ==
    /\ pc[t] = "busy"
    /\ Len(wakers) < MaxWakers
    /\ wakers' = set_wake(wakers, fut[t][1], t)
    /\ pc' = [pc EXCEPT ![t] = "pending"]
    /\ UNCHANGED <<mode, value, borrowed, next_waker_id, fut, woken, tmp, incs>>

\* A try_lock that queues the caller when the store is busy.
TryLockRegisters(t) ==
    /\ pc[t] \in {"idle", "refused"}
    /\ IF try_borrow_mut
       THEN /\ borrowed' = TRUE
            /\ pc' = [pc EXCEPT ![t] = "holding"]
            /\ UNCHANGED wakers
       ELSE /\ pc' = [pc EXCEPT ![t] = "refused"]
            /\ Len(wakers) < MaxWakers
            /\ wakers' = Append(wakers, <<next_waker_id, t>>)
            /\ UNCHANGED borrowed
    /\ UNCHANGED <<mode, value, next_waker_id, fut, woken, tmp, incs>>

\* Mutex::try_lock(): Some(MutexRef) or None ("refused"), at once.
TryLock(t) ==
    /\ pc[t] \in {"idle", "refused"}
    /\ IF try_borrow_mut
       THEN /\ borrowed' = TRUE
            /\ pc' = [pc EXCEPT ![t] = "holding"]
       ELSE /\ pc' = [pc EXCEPT ![t] = "refused"]
            /\ UNCHANGED borrowed
    /\ UNCHANGED <<mode, value, wakers, next_waker_id, fut, woken, tmp, incs>>

\* `*guard += 1`, first half: Deref reads the payload.
DerefRead(t) ==
    /\ pc[t] = "holding"
    /\ tmp' = [tmp EXCEPT ![t] = <<value>>]
    /\ pc' = [pc EXCEPT ![t] = "updating"]
    /\ UNCHANGED <<mode, value, borrowed, wakers, next_waker_id, fut, woken, incs>>

\* `*guard += 1`, second half: DerefMut stores the sum.
DerefWrite(t) ==
    /\ pc[t] = "updating"
    /\ value' = tmp[t][1] + 1
    /\ incs' = incs + 1
    /\ tmp' = [tmp EXCEPT ![t] = <<>>]
    /\ pc' = [pc EXCEPT ![t] = "holding"]
    /\ UNCHANGED <<mode, borrowed, wakers, next_waker_id, fut, woken>>

\* Drop for MutexRef: drop() runs on_drop (pop one entry, wake it); the
\* fields are dropped after drop() returns, `core` (the RefMut / MutexGuard
\* that holds the store) first.  In the Concurrent build other threads run
\* between on_drop and the drop of `core`.
DropGuard(t) ==
    /\ pc[t] = "holding"
    /\ wakers' = pop_rest(wakers)
    /\ woken' = wake(pop_entry(wakers))
    /\ IF mode = "Cooperative"
       THEN /\ borrowed' = FALSE
            /\ pc' = [pc EXCEPT ![t] = Rest(t)]
            /\ fut' = [fut EXCEPT ![t] = NoFuture]
       ELSE /\ pc' = [pc EXCEPT ![t] = "dropping"]
            /\ UNCHANGED <<borrowed, fut>>
    /\ UNCHANGED <<mode, value, next_waker_id, tmp, incs>>

\* Drop for MutexRef, Concurrent build: the field `core` is dropped, which
\* releases the store.
DropCore(t) ==
    /\ pc[t] = "dropping"
    /\ borrowed' = FALSE
    /\ pc' = [pc EXCEPT ![t] = Rest(t)]
    /\ fut' = [fut EXCEPT ![t] = NoFuture]
    /\ UNCHANGED <<mode, value, wakers, next_waker_id, woken, tmp, incs>>

\* A cancellation that releases the store as a guard's drop does.
CancelReleases(t) ==
    /\ pc[t] \in {"created", "pending"}
    /\ pc' = [pc EXCEPT ![t] = "cancelled"]
    /\ fut' = [fut EXCEPT ![t] = NoFuture]
    /\ woken' = [woken EXCEPT ![t] = FALSE]
    /\ borrowed' = FALSE
    /\ UNCHANGED <<mode, value, wakers, next_waker_id, tmp, incs>>

\* An unresolved LockFuture is dropped: it has no Drop impl, so its fields
\* (the id, the reference to value, the Pointer to state, the closure) are
\* dropped and nothing else happens.
Cancel(t) ==
    /\ pc[t] \in {"created", "pending"}
    /\ pc' = [pc EXCEPT ![t] = "cancelled"]
    /\ fut' = [fut EXCEPT ![t] = NoFuture]
    /\ woken' = [woken EXCEPT ![t] = FALSE]
    /\ UNCHANGED <<mode, value, borrowed, wakers, next_waker_id, tmp, incs>>

\* The tasks are interchangeable: they call lock() in the order of their
\* names.
InTurn(t) == \A u \in Lockers : u < t => pc[u] # "idle"

Next ==
    \/ \E t \in Lockers : InTurn(t) /\ next_waker_id < MaxRequests /\ Lock(t) /\ UNCHANGED <<log, state_owner>>
    \/ \E t \in Lockers : Poll(t) /\ UNCHANGED <<log, state_owner>>
    \/ \E t \in Lockers : Register(t) /\ UNCHANGED <<log, state_owner>>
    \/ \E t \in Lockers : Cancel(t) /\ UNCHANGED <<log, state_owner>>
    \/ TryLock(TryClient) /\ UNCHANGED <<log, state_owner>>
    \/ \E t \in Tasks : DerefRead(t) /\ value < MaxValue /\ UNCHANGED <<log, state_owner>>
    \/ \E t \in Tasks : DerefWrite(t) /\ UNCHANGED <<log, state_owner>>
    \/ \E t \in Tasks : DropGuard(t) /\ UNCHANGED <<log, state_owner>>
    \/ \E t \in Tasks : DropCore(t) /\ UNCHANGED <<log, state_owner>>

Spec == Init /\ [][Next]_vars

(***************************************************************************)
(* The liveness specification: an executor that polls a request when it    *)
(* is first awaited and each time its waker was invoked, and never         *)
(* otherwise; tasks that never leak a guard, never cancel and never use    *)
(* try_lock.  Every handler that has started finishes.                     *)
(***************************************************************************)

\* The executor's poll of a task that is due: new, or woken.
PollDue(t) == (pc[t] = "created" \/ woken[t]) /\ Poll(t)

LiveNext ==
    \/ \E t \in Lockers : InTurn(t) /\ Lock(t) /\ UNCHANGED <<log, state_owner>>
    \/ \E t \in Lockers : PollDue(t) /\ UNCHANGED <<log, state_owner>>
    \/ \E t \in Lockers : Register(t) /\ UNCHANGED <<log, state_owner>>
    \/ \E t \in Lockers : DropGuard(t) /\ UNCHANGED <<log, state_owner>>
    \/ \E t \in Lockers : DropCore(t) /\ UNCHANGED <<log, state_owner>>

LiveSpec ==
    /\ Init
    /\ [][LiveNext]_vars
    /\ \A t \in Lockers :
        /\ WF_vars(PollDue(t) /\ UNCHANGED <<log, state_owner>>)
        /\ WF_vars(Register(t) /\ UNCHANGED <<log, state_owner>>)
        /\ WF_vars(DropGuard(t) /\ UNCHANGED <<log, state_owner>>)
        /\ WF_vars(DropCore(t) /\ UNCHANGED <<log, state_owner>>)

(***************************************************************************)
(* The cancellation specification: the liveness specification, in which a  *)
(* task may also drop its unresolved request at any time.                  *)
(***************************************************************************)

OrphanNext ==
    \/ \E t \in Lockers : InTurn(t) /\ Lock(t) /\ UNCHANGED <<log, state_owner>>
    \/ \E t \in Lockers : PollDue(t) /\ UNCHANGED <<log, state_owner>>
    \/ \E t \in Lockers : Register(t) /\ UNCHANGED <<log, state_owner>>
    \/ \E t \in Lockers : Cancel(t) /\ UNCHANGED <<log, state_owner>>
    \/ \E t \in Lockers : DropGuard(t) /\ UNCHANGED <<log, state_owner>>
    \/ \E t \in Lockers : DropCore(t) /\ UNCHANGED <<log, state_owner>>

OrphanSpec ==
    /\ Init
    /\ [][OrphanNext]_vars
    /\ \A t \in Lockers :
        /\ WF_vars(PollDue(t) /\ UNCHANGED <<log, state_owner>>)
        /\ WF_vars(Register(t) /\ UNCHANGED <<log, state_owner>>)
        /\ WF_vars(DropGuard(t) /\ UNCHANGED <<log, state_owner>>)
        /\ WF_vars(DropCore(t) /\ UNCHANGED <<log, state_owner>>)

(***************************************************************************)
(* The registry specification: the accesses to the state cell.  In the     *)
(* Concurrent build lock(), set_wake and on_drop each take the cell with   *)
(* try_lock().unwrap() and other threads run while one of them is inside.  *)
(* In the Cooperative build each borrow_mut() ends in the handler's step;  *)
(* on_drop calls wake() after its borrow has ended.                        *)
(***************************************************************************)

\* Task t is about to enter lock(), set_wake or on_drop.
WantsState(t) ==
    \/ t \in Lockers /\ pc[t] = "idle" /\ InTurn(t) /\ next_waker_id < MaxRequests
    \/ pc[t] = "busy" /\ Len(wakers) < MaxWakers
    \/ pc[t] = "holding"

\* (*state).try_lock().unwrap(), Concurrent build: the thread enters the
\* cell if it is free; otherwise try_lock() returns Err(WouldBlock) and
\* unwrap() panics.  The panicking thread unwinds: its LockFuture is
\* dropped; a MutexRef is dropped while panicking, which poisons the value
\* cell, so that every later try_lock() of it fails.
StateTryLock(t) ==
    /\ mode = "Concurrent"
    /\ WantsState(t)
    /\ state_owner # <<t>>
    /\ IF state_owner = Unlocked
       THEN /\ state_owner' = <<t>>
            /\ UNCHANGED <<pc, fut, woken>>
       ELSE /\ pc' = [pc EXCEPT ![t] = "panicked"]
            /\ fut' = [fut EXCEPT ![t] = NoFuture]
            /\ woken' = [woken EXCEPT ![t] = FALSE]
            /\ UNCHANGED state_owner
    /\ UNCHANGED <<mode, value, borrowed, wakers, next_waker_id, tmp, incs>>

\* Task t is inside the state cell: in the Concurrent build it has taken the
\* lock; in the Cooperative build the borrow is taken and ended in the step.
StateHeld(t) ==
    IF mode = "Cooperative" THEN state_owner = Unlocked ELSE state_owner = <<t>>

RegistryNext ==
    \/ \E t \in Tasks : StateTryLock(t) /\ UNCHANGED log
    \/ \E t \in Lockers : InTurn(t) /\ next_waker_id < MaxRequests /\ StateHeld(t)
                            /\ Lock(t) /\ state_owner' = Unlocked /\ UNCHANGED log
    \/ \E t \in Lockers : Poll(t) /\ UNCHANGED <<log, state_owner>>
    \/ \E t \in Lockers : StateHeld(t) /\ Register(t) /\ state_owner' = Unlocked
                            /\ UNCHANGED log
    \/ TryLock(TryClient) /\ UNCHANGED <<log, state_owner>>
    \/ \E t \in Tasks : StateHeld(t) /\ DropGuard(t) /\ state_owner' = Unlocked
                            /\ UNCHANGED log
    \/ \E t \in Tasks : DropCore(t) /\ UNCHANGED <<log, state_owner>>

RegistrySpec == Init /\ [][RegistryNext]_vars

(***************************************************************************)
(* The scenario specification: the same executor, no cancellation, and a   *)
(* log of the registry's events: <<"reg", id>> when set_wake has run for   *)
(* the request id, <<"wake", id>> when a release has invoked the waker of  *)
(* the entry it removed.                                                   *)
(***************************************************************************)

\* The log after a poll of t: a failed poll of the Cooperative build has
\* called set_wake.
LogPoll(t) ==
    IF ~try_borrow_mut /\ mode = "Cooperative"
    THEN Append(log, <<"reg", fut[t][1]>>)
    ELSE log

\* The log after a release.
LogDrop ==
    IF wakers # <<>>
    THEN Append(log, <<"wake", pop_entry(wakers)[1]>>)
    ELSE log

\* The log has room for the event of one more step.
Logging == Len(log) < MaxLog

OrderNext ==
    \/ \E t \in Lockers : Logging /\ InTurn(t) /\ Lock(t) /\ UNCHANGED <<log, state_owner>>
    \/ \E t \in Lockers : Logging /\ PollDue(t) /\ log' = LogPoll(t) /\ UNCHANGED state_owner
    \/ \E t \in Lockers : Logging /\ Register(t) /\ log' = Append(log, <<"reg", fut[t][1]>>) /\ UNCHANGED state_owner
    \/ Logging /\ TryLock(TryClient) /\ UNCHANGED <<log, state_owner>>
    \/ \E t \in Tasks : Logging /\ DropGuard(t) /\ log' = LogDrop /\ UNCHANGED state_owner
    \/ \E t \in Tasks : Logging /\ DropCore(t) /\ UNCHANGED <<log, state_owner>>

OrderSpec == Init /\ [][OrderNext]_vars

(***************************************************************************)
(* Properties.                                                             *)
(***************************************************************************)

\* The waker ids of the registry, in order.
Ids(ws) == [i \in 1..Len(ws) |-> ws[i][1]]

\* The request of task t has an entry in the registry.
HasEntry(t) == fut[t] # NoFuture /\ position(wakers, fut[t][1]) # 0

\* C1 - Mutual exclusion: in every reachable state at most one MutexRef
\* derived from the Mutex exists.
MutualExclusion == Cardinality(Guards) <= 1

\* A guard exists while a poll returned Pending and a try_lock returned None.
C1_Witness ==
    /\ Cardinality(Guards) = 1
    /\ pc[TryClient] = "refused"
    /\ \E t \in Lockers : pc[t] = "pending"

\* C2 - Eventual acquisition: when every guard is eventually dropped and
\* the executor polls every request whose waker was invoked, every
\* unresolved request eventually resolves to a guard.
EventualAcquisition ==
    \A t \in Lockers : (pc[t] \in RequestPcs) ~> (pc[t] \in GuardPcs)

\* C3 - Release wakes exactly one: a guard drop that finds N entries in the
\* registry removes min(1, N) of them, the last one, and invokes the waker
\* of that entry and no other; with N = 0 no waker is invoked.
ReleaseWakesOne ==
    [][\A t \in Tasks : DropGuard(t) =>
        LET n == Len(wakers)
        IN  /\ Len(wakers') = n - (IF n >= 1 THEN 1 ELSE 0)
            /\ wakers' = SubSeq(wakers, 1, Len(wakers'))
            /\ n = 0 => woken' = woken
            /\ n >= 1 =>
                /\ \A u \in Tasks : u # wakers[n][2] => woken'[u] = woken[u]
                /\ pc[wakers[n][2]] \in RequestPcs => woken'[wakers[n][2]]
    ]_vars

\* After a release that found two entries: one entry is left, and the task
\* of the removed one is woken.
C3_Witness ==
    /\ Len(wakers) = 1
    /\ Guards = {}
    /\ \E t \in Lockers : woken[t] /\ pc[t] = "pending" /\ ~HasEntry(t)

\* C4 - Re-registration idempotence: a failed poll of a request that has an
\* entry leaves the registry's size and the order of its ids unchanged.
ReRegistrationInPlace ==
    [][\A t \in Lockers :
        (HasEntry(t) /\ pc'[t] = "pending" /\ (Poll(t) \/ Register(t)))
            => Ids(wakers') = Ids(wakers)
    ]_vars

\* The ids registered and not yet woken after the events of l, oldest first.
RECURSIVE Registered(_)
Registered(l) ==
    IF l = <<>>
    THEN <<>>
    ELSE LET s == Registered(SubSeq(l, 1, Len(l) - 1))
             e == l[Len(l)]
         IN  IF e[1] = "reg"
             THEN Append(s, e[2])
             ELSE SubSeq(s, 1, Len(s) - 1)

\* C5 - Order policy: the registry holds the ids registered and not yet
\* woken, oldest first, and every release wakes the most recently
\* registered of them; so when A, B, C register in that order and
\* only releases follow, the wakers fire in the order C, B, A.
WakeOrderLIFO ==
    /\ Registered(log) = Ids(wakers)
    /\ \A k \in 1..Len(log) :
        log[k][1] = "wake" =>
            LET s == Registered(SubSeq(log, 1, k - 1))
            IN  s # <<>> /\ s[Len(s)] = log[k][2]
    /\ \A a, b, c \in 0..(NumLockers - 1) :
        (/\ Len(log) = 6
         /\ SubSeq(log, 1, 3) = <<<<"reg", a>>, <<"reg", b>>, <<"reg", c>>>>
         /\ \A k \in 4..6 : log[k][1] = "wake")
            => SubSeq(log, 4, 6) = <<<<"wake", c>>, <<"wake", b>>, <<"wake", a>>>>

\* Three requests registered one after the other, then three releases.
C5_Witness ==
    /\ Len(log) = 6
    /\ \A k \in 1..3 : log[k][1] = "reg"
    /\ \A k \in 4..6 : log[k][1] = "wake"
    /\ Cardinality({log[k][2] : k \in 1..3}) = 3

\* C6 - try_lock never suspends and never touches the registry: with a
\* guard alive it returns None and changes neither the registry, the
\* counter nor the holder; with none alive it returns the guard.
TryLockNonSuspending ==
    [][TryLock(TryClient) =>
        /\ wakers' = wakers
        /\ next_waker_id' = next_waker_id
        /\ Guards # {} =>
            /\ pc'[TryClient] = "refused"
            /\ Guards' = Guards
            /\ borrowed' = borrowed
        /\ Guards = {} =>
            /\ pc'[TryClient] = "holding"
            /\ Guards' = {TryClient}
    ]_vars

\* try_lock returned None while a request's guard is alive and a waiter is
\* registered.
C6_Witness ==
    /\ pc[TryClient] = "refused"
    /\ wakers # <<>>
    /\ \E t \in Lockers : pc[t] \in GuardPcs

\* C7 - No lost update: a request resolves only when no other guard is
\* alive, and the payload always equals the number of increments made.
NoLostUpdate ==
    [][/\ \A y \in Lockers :
            (Poll(y) /\ pc'[y] = "holding") => (Guards = {} /\ Guards' = {y})
       /\ value' = incs'
    ]_vars

\* Two requests have resolved, incremented and released: the payload is 2.
C7_Witness ==
    /\ Guards = {}
    /\ value = 2
    /\ \E x, y \in Lockers : x # y /\ pc[x] = "done" /\ pc[y] = "done"

\* C8 - Registry identifier uniqueness: no two entries of the registry
\* carry the same waker id.
UniqueIds ==
    \A i, j \in 1..Len(wakers) : i # j => wakers[i][1] # wakers[j][1]

\* C9 - Release precedes wake: when the waker of the removed entry is
\* invoked, the store is already released.
ReleasePrecedesWake ==
    [][\A t \in Tasks : (DropGuard(t) /\ wakers # <<>>) => ~borrowed']_vars

\* C10 - Cancellation leaves no exclusive access: dropping an unresolved
\* request changes neither the store nor the set of guards, and the store
\* is not left held without a guard.
CancelLeavesStore ==
    [][\A t \in Lockers : Cancel(t) =>
        /\ borrowed' = borrowed
        /\ Guards' = Guards
        /\ borrowed' <=> Guards' # {}
    ]_vars

\* A request was dropped while pending, its entry is still registered, and
\* another was dropped before its first poll; a guard is alive.
C10_Witness ==
    /\ Guards # {}
    /\ \E t \in Lockers : pc[t] = "cancelled" /\ \E i \in 1..Len(wakers) : wakers[i][2] = t
    /\ \E t \in Lockers : pc[t] = "cancelled" /\ \A i \in 1..Len(wakers) : wakers[i][2] # t

\* C11 - Orphaned entry is harmless: dropping a pending request whose entry
\* is registered costs the other requests nothing; in the Cooperative
\* build, where no request is lost otherwise, every request that is not
\* dropped itself still resolves.
OrphanHarmless ==
    \A t \in Lockers :
        (mode = "Cooperative" /\ pc[t] \in RequestPcs)
            ~> (pc[t] \in GuardPcs \/ pc[t] = "cancelled")

\* C12 - The registry never grants or denies access: a poll made while no
\* guard exists resolves to a guard, whatever the registry holds and whether
\* or not the request was woken; a poll made while a guard exists does not
\* resolve, woken or not.
PollDependsOnStore ==
    [][\A t \in Lockers :
        Poll(t) =>
            /\ Guards = {} => pc'[t] = "holding"
            /\ Guards # {} => pc'[t] \in {"pending", "busy"}]_vars

\* A request resolved while its own entry and another request's entry were
\* still registered: no release had woken it.
C12_Witness ==
    \E t \in Lockers, u \in Lockers :
        /\ t # u
        /\ pc[t] = "holding"
        /\ HasEntry(t)
        /\ pc[u] = "pending"
        /\ HasEntry(u)
        /\ ~woken[t]

\* C13 - Failed poll registers and changes nothing else: a poll made while a
\* guard exists leaves the request unresolved; when it returns Pending the
\* registry holds an entry under the request's id with the poll's waker and
\* still holds every entry it held; the holders, the store, the payload,
\* the counter and the request's id are unchanged.
FailedPollRegisters ==
    [][\A t \in Lockers :
        ((Poll(t) /\ Guards # {}) \/ Register(t)) =>
            /\ pc'[t] \in {"pending", "busy"}
            /\ pc'[t] = "pending" =>
                 \E i \in 1..Len(wakers') : wakers'[i] = <<fut[t][1], t>>
            /\ \A j \in 1..Len(wakers) :
                 \E k \in 1..Len(wakers') : wakers'[k] = wakers[j]
            /\ Guards' = Guards
            /\ borrowed' = borrowed
            /\ value' = value
            /\ next_waker_id' = next_waker_id
            /\ fut' = fut]_vars

\* A request is Pending and registered under its id behind another entry,
\* while a guard that has written the payload lives.
C13_Witness ==
    \E t \in Lockers :
        /\ pc[t] = "pending"
        /\ Len(wakers) > 1
        /\ wakers[Len(wakers)] = <<fut[t][1], t>>
        /\ Guards # {}
        /\ value > 0

\* C14 - Waiter identity: lock() gives the request the current counter and
\* increments the counter by one, adds no registry entry and does not touch
\* the store; a request keeps its id until it is gone; two requests never
\* share an id, and every id handed out is below the counter.
WaiterIdentity ==
    [][/\ \A t \in Lockers :
            Lock(t) =>
                /\ fut'[t] = <<next_waker_id>>
                /\ next_waker_id' = next_waker_id + 1
                /\ wakers' = wakers
                /\ borrowed' = borrowed
                /\ Guards' = Guards
       /\ \A t \in Lockers :
            (pc[t] \in RequestPcs /\ pc'[t] \in RequestPcs \cup GuardPcs)
                => fut'[t] = fut[t]
       /\ \A t \in Lockers :
            fut'[t] # NoFuture => fut'[t][1] < next_waker_id'
       /\ \A t \in Lockers, u \in Lockers :
            (t # u /\ fut'[t] # NoFuture) => fut'[t] # fut'[u]]_vars

\* Two requests exist, one of them polled and registered, the other new.
C14_Witness ==
    \E t \in Lockers, u \in Lockers :
        /\ pc[t] = "pending"
        /\ HasEntry(t)
        /\ pc[u] = "created"
        /\ fut[t] # fut[u]
        /\ next_waker_id = MaxRequests

\* C15 - No lost wake-up: whenever no guard exists and some unresolved
\* request is registered, some unresolved request has been woken and not
\* yet polled again.
NoLostWakeup ==
    (Guards = {} /\ \E t \in Lockers : pc[t] \in RequestPcs /\ HasEntry(t))
        => \E u \in Lockers : pc[u] \in RequestPcs /\ woken[u]

\* C16 - No stale registry entries: once a request has resolved to a guard,
\* the registry holds no entry under its id.
NoStaleEntries ==
    \A t \in Lockers : pc[t] \in GuardPcs => ~HasEntry(t)

\* C17 - Registry access never conflicts: whenever lock(), a failed poll or
\* a guard's drop takes the state cell, no other access to it is in
\* progress, and no task has panicked on a refused acquisition.
RegistryNeverConflicts ==
    [][\A t \in Tasks :
        StateTryLock(t) => (state_owner = Unlocked /\ pc'[t] # "panicked")]_vars

====
